---- MODULE Spec2Model ----
(***************************************************************************)
(* Model of the thumbnail pipeline of Houdini_HDRI_UI.py: EXRBrowser       *)
(* (load_exrs, clear, _build_card, _load_thumbnail_async, the two result   *)
(* slots, _update_progress), ThumbnailWorker.run, the QThreadPool the      *)
(* browser submits to, and the GUI thread's posted-event queue through     *)
(* which worker signals and deleteLater() requests are delivered.          *)
(***************************************************************************)
EXTENDS Integers, Sequences, FiniteSets, TLC

\* ------------------------------------------------------------------ bounds
MaxOpens == 2        \* load_exrs calls in one run
MaxFiles == 2        \* directory entries of folder "dirA" that are listed
MaxUiOps == 2        \* clicks and slider moves in one run
MaxWidth == 2        \* decoded images are 1..MaxWidth pixels wide,
MaxHeight == 2       \*   1..MaxHeight high
MaxChannels == 4     \*   and have 1..MaxChannels channels
MaxCores == 4        \* os.cpu_count() ranges over 1..MaxCores
MaxGridFiles == 9    \* images in folder "dirBig"

\* ------------------------------------------------------- the file system
\* A directory entry: name, extension as spelled on disk, and what
\* OpenImageIO makes of the file: "valid" with its spec, or "corrupt" with
\* the length of the text of the exception it raises.
Entry(n, e, k, w, h, c, el) ==
    [name |-> n, ext |-> e, kind |-> k, width |-> w, height |-> h,
     nchannels |-> c, errlen |-> el]

PoolA ==
    << Entry("a", ".exr", "valid", 4, 2, 2, 0),
       Entry("b", ".hdr", "corrupt", 0, 0, 0, 41),
       Entry("c", ".EXR", "valid", 3, 3, 4, 0),
       Entry("d", ".Hdr", "corrupt", 0, 0, 0, 12) >>

Min(a, b) == IF a < b THEN a ELSE b
Max(a, b) == IF a > b THEN a ELSE b

\* The names of the files of "dirBig".
BigNames ==
    <<"g01", "g02", "g03", "g04", "g05", "g06", "g07", "g08", "g09", "g10",
      "g11", "g12", "g13", "g14">>

\* os.listdir(folder): the entries in the order the OS returns them.
\* "dirA" holds MaxFiles images and one text file between them.
ListDir(folder) ==
    CASE folder = "dirA" ->
           <<PoolA[1]>> \o << Entry("notes", ".txt", "corrupt", 0, 0, 0, 5) >>
              \o SubSeq(PoolA, 2, Min(MaxFiles, Len(PoolA)))
      [] folder = "dirB" -> << Entry("e", ".hdr", "valid", 2, 2, 1, 0) >>
      [] folder = "dirEmpty" -> << Entry("readme", ".md", "corrupt", 0, 0, 0, 5) >>
      [] folder = "dirBig" ->
           [i \in 1..Min(MaxGridFiles, Len(BigNames)) |->
               IF i % 3 = 0 THEN Entry(BigNames[i], ".hdr", "corrupt", 0, 0, 0, 7)
               ELSE Entry(BigNames[i], ".exr", "valid", 1, 1, 3, 0)]
      [] OTHER -> << >>

\* The directories on disk, and what the user types in the path field:
\* three of the directories or a regular file.
Dirs == {"dirA", "dirB", "dirEmpty", "dirBig"}
Folders == {"dirA", "dirB", "dirEmpty", "file.exr"}

\* os.path.exists(folder) in place of os.path.isdir(folder)
IsDirExists(folder) == folder \in Dirs \cup {"file.exr"}

\* os.path.isdir(folder)
IsDir(folder) == folder \in Dirs

\* str.lower() on the extensions that occur
Lower(e) ==
    CASE e = ".EXR" -> ".exr"
      [] e = ".Hdr" -> ".hdr"
      [] e = ".HDR" -> ".hdr"
      [] OTHER -> e

\* f.lower().endswith((".exr", ".hdr"))
Matches(f) == Lower(f.ext) \in {".exr", ".hdr"}

RECURSIVE Filter(_)
Filter(s) ==
    IF s = << >> THEN << >>
    ELSE IF Matches(Head(s)) THEN <<Head(s)>> \o Filter(Tail(s))
         ELSE Filter(Tail(s))

\* files = [f for f in os.listdir(folder) if f.lower().endswith(...)]
Files(folder) == Filter(ListDir(folder))

\* os.path.join(folder, f)
FullPath(folder, f) == <<folder, f.name, f.ext>>

EntryOf(path) ==
    CHOOSE f \in {ListDir(path[1])[i] : i \in 1..Len(ListDir(path[1]))} :
        f.name = path[2] /\ f.ext = path[3]

\* ------------------------------------------------------------------ text
Digit == <<"0", "1", "2", "3", "4", "5", "6", "7", "8", "9">>

\* str(n) of a non-negative integer, as a sequence of digit characters
RECURSIVE ToStr(_)
ToStr(n) == IF n < 10 THEN <<Digit[n + 1]>>
            ELSE ToStr(n \div 10) \o <<Digit[(n % 10) + 1]>>

LoadingText(x, n) == <<"Loading ">> \o ToStr(x) \o <<"/">> \o ToStr(n) \o <<" HDRI files...">>
LoadedText(n) == <<"Loaded ">> \o ToStr(n) \o <<" HDRI file">> \o (IF n # 1 THEN <<"s">> ELSE << >>)
InvalidText == <<"Invalid folder path">>
NoFilesText == <<"No HDRI files found">>
InitialText == <<"No files loaded">>

\* info_text naming the channels of the bitmap, 1 or 3, not of the file
InfoTextBitmap(f) ==
    ToStr(f.width) \o <<"x">> \o ToStr(f.height) \o <<" . ">>
       \o ToStr(IF f.nchannels = 1 THEN 1 ELSE 3) \o <<"ch">>

\* f"{spec.width}x{spec.height} . {spec.nchannels}ch"
InfoText(f) == ToStr(f.width) \o <<"x">> \o ToStr(f.height) \o <<" . ">> \o ToStr(f.nchannels) \o <<"ch">>

\* str(e): the exception text, one character per position
ErrText(f) == [i \in 1..f.errlen |-> Digit[(i % 10) + 1]]

\* str(e)[:30]
Truncate(s) == SubSeq(s, 1, Min(30, Len(s)))

\* ------------------------------------------------------------------ state
VARIABLES
    cores,          \* os.cpu_count()
    card_data,      \* EXRBrowser.card_data: path -> card
    loaded_count,   \* EXRBrowser.loaded_count
    total_count,    \* EXRBrowser.total_count
    count_label,    \* text of EXRBrowser.count_label
    thread_pool,    \* EXRBrowser.thread_pool, the global QThreadPool:
                    \*   queue   - runnables waiting for a thread, oldest first
                    \*   running - runnables inside run()
                    \*   between - active threads that have left run() and
                    \*             not yet looked at the queue again
    events,         \* the GUI thread's posted events, oldest first
    opens,          \* history: load_exrs calls so far
    generation,     \* history: load_exrs calls that passed the directory check
    submitted,      \* history: thread_pool.start() calls so far
    cleared,        \* history: runnables removed by thread_pool.clear()
    asked,          \* history: the argument of the latest load_exrs call
    current,        \* history: the folder of the latest load_exrs call
                    \*          that passed the directory check
    grid,           \* EXRBrowser.grid: the cards in the layout in the order
                    \*   they were added, each with its row and column
    crashed,        \* the process has died in a read past the end of a buffer
    enable_multithreading,  \* ENABLE_MULTITHREADING
    enable_houdini, \* ENABLE_HOUDINI after the import guard
    scene,          \* the host's node graph: whether /obj exists, its children
    sliders,        \* values of location_slider and intensity_slider
    ui_ops,         \* history: clicks and slider moves so far
    ui_last,        \* history: the latest click or slider move: its input,
                    \*          the host calls it made, how it ended
    img,            \* decoding: the array read_image returned, with its spec
    decoded         \* decoding: what run() made of img

sessionVars == <<card_data, loaded_count, total_count, count_label>>
histVars == <<opens, generation, submitted, cleared, asked, current, grid>>
hostVars == <<enable_houdini, scene, sliders, ui_ops, ui_last>>
decodeVars == <<img, decoded>>
pipeVars == <<cores, card_data, loaded_count, total_count, count_label,
              thread_pool, events, opens, generation, submitted,
              cleared, asked, current, grid>>
vars == <<cores, card_data, loaded_count, total_count, count_label,
          thread_pool, events, opens, generation, submitted,
          cleared, asked, current, grid, crashed, enable_multithreading,
          enable_houdini, scene, sliders, ui_ops, ui_last, img, decoded>>

\* os.cpu_count() // 2 without the max(1, ...)
MAX_THREAD_COUNT_NoFloor == cores \div 2

\* MAX_THREAD_COUNT = max(1, os.cpu_count() // 2)
MAX_THREAD_COUNT == Max(1, cores \div 2)

Terminal == {"Loaded", "Failed"}

\* self.card_data = {}
NoCards == [p \in {} |-> 0]

\* EXRBrowser.__init__: the browser's own fields, and the pool
PipeInit ==
    /\ cores \in 1..MaxCores
    /\ card_data = NoCards
    /\ loaded_count = 0
    /\ total_count = 0
    /\ count_label = InitialText
    /\ thread_pool = [queue |-> << >>, running |-> {}, between |-> 0]
    /\ events = << >>
    /\ opens = 0
    /\ generation = 0
    /\ submitted = 0
    /\ cleared = {}
    /\ asked = ""
    /\ current = ""
    /\ grid = << >>

\* ------------------------------------------------------------ QThreadPool
\* A runnable: ThumbnailWorker(path).  gen is history only (the load_exrs
\* call that created it); no code reads it.
Task(path, g) == [path |-> path, gen |-> g]

\* activeThreadCount()
ActiveThreads(pool) == Cardinality(pool.running) + pool.between

\* a start() that drops the runnable when no thread is free
PoolStartDrop(pool, task) ==
    IF Cardinality(pool.running) + pool.between < MAX_THREAD_COUNT
    THEN [pool EXCEPT !.running = @ \cup {task}]
    ELSE pool

\* self.thread_pool.start(worker): runs the runnable on a free thread at
\* once, or queues it when maxThreadCount threads are active.
PoolStart(pool, task) ==
    IF ActiveThreads(pool) < MAX_THREAD_COUNT
    THEN [pool EXCEPT !.running = @ \cup {task}]
    ELSE [pool EXCEPT !.queue = Append(@, task)]

\* clear() without the thread_pool.clear() call
PoolClearNothing(pool) == pool

\* self.thread_pool.clear(): drops the runnables that have not started.
PoolClear(pool) == [pool EXCEPT !.queue = << >>]

\* --------------------------------------------------------------- the cards
\* _build_card: the entry stored in card_data[path].  loading_label is the
\* PulsingLabel: "alive", or "deleteLater" once deleteLater() was called on
\* it.  card and applied are history: the load_exrs call that built the
\* card, and the number of results applied to it so far.
NewCard(g) ==
    [state |-> "Loading", info |-> <<"Loading...">>, card |-> g,
     loading_label |-> "alive", applied |-> 0]

\* The loop of load_exrs over files (a sequence of directory entries):
\* _build_card stores the card and _load_thumbnail_async starts a worker.
RECURSIVE BuildCards(_, _, _, _)
BuildCards(files, folder, g, st) ==
    IF files = << >> THEN st
    ELSE LET path == FullPath(folder, Head(files))
             cards == [p \in DOMAIN st.cards \cup {path} |->
                          IF p = path THEN NewCard(g) ELSE st.cards[p]]
         IN  BuildCards(Tail(files), folder, g,
                        [cards |-> cards,
                         pool |-> PoolStart(st.pool, Task(path, g))])

\* _update_progress: the text it puts in count_label
UpdateProgress(loaded, total) ==
    IF loaded >= total THEN LoadedText(total) ELSE LoadingText(loaded, total)

SeqToSet(s) == {s[i] : i \in 1..Len(s)}

\* ------------------------------------------------------------------ clear
\* clear() without the two counter resets
clearKeepsCounts ==
    [pool |-> PoolClear(thread_pool), cards |-> NoCards, grid |-> << >>,
     loaded |-> loaded_count, total |-> total_count]

\* EXRBrowser.clear(): the pool's queue is dropped, the table emptied,
\* both counters reset and every widget taken out of the grid.
clear ==
    [pool |-> PoolClear(thread_pool), cards |-> NoCards, grid |-> << >>,
     loaded |-> 0, total |-> 0]

\* The loop of load_exrs with the column test made before the increment:
\* five cards to a row.
RECURSIVE PlaceCardsLate(_, _, _, _)
PlaceCardsLate(files, folder, row, col) ==
    IF files = << >> THEN << >>
    ELSE <<[path |-> FullPath(folder, Head(files)), row |-> row, col |-> col]>>
           \o PlaceCardsLate(Tail(files), folder,
                             IF col = 4 THEN row + 1 ELSE row,
                             IF col = 4 THEN 0 ELSE col + 1)

\* The loop of load_exrs over files: grid.addWidget(card, row, col), then
\* col += 1 and, if col == 4, col = 0 and row += 1.
RECURSIVE PlaceCards(_, _, _, _)
PlaceCards(files, folder, row, col) ==
    IF files = << >> THEN << >>
    ELSE <<[path |-> FullPath(folder, Head(files)), row |-> row, col |-> col]>>
           \o PlaceCards(Tail(files), folder,
                         IF col + 1 = 4 THEN row + 1 ELSE row,
                         IF col + 1 = 4 THEN 0 ELSE col + 1)

\* -------------------------------------------------------------- load_exrs
\* the directory check made after self.clear()
returnAfterClear ==
    [pool |-> PoolClear(thread_pool), cards |-> NoCards, grid |-> << >>,
     loaded |-> 0, total |-> 0]

\* What the return under "if not os.path.isdir(folder)" leaves behind: it
\* comes before self.clear(), so everything is as it was.
returnInvalid ==
    [pool |-> thread_pool, cards |-> card_data, grid |-> grid,
     loaded |-> loaded_count, total |-> total_count]

load_exrs(folder) ==
    /\ opens < MaxOpens
    /\ opens' = opens + 1
    /\ asked' = folder
    /\ UNCHANGED <<cores, events>>
    /\ IF ~IsDir(folder)
       THEN /\ count_label' = InvalidText
            /\ card_data' = returnInvalid.cards
            /\ thread_pool' = returnInvalid.pool
            /\ grid' = returnInvalid.grid
            /\ loaded_count' = returnInvalid.loaded
            /\ total_count' = returnInvalid.total
            /\ UNCHANGED <<generation, submitted, cleared, current>>
       ELSE LET files == Files(folder)
                g == generation + 1
                st == BuildCards(files, folder, g,
                                 [cards |-> clear.cards, pool |-> clear.pool])
            IN  /\ generation' = g
                /\ current' = folder
                /\ grid' = clear.grid \o PlaceCards(files, folder, 0, 0)
                /\ cleared' = cleared \cup SeqToSet(thread_pool.queue)
                /\ IF files = << >>
                   THEN /\ count_label' = NoFilesText
                        /\ card_data' = clear.cards
                        /\ thread_pool' = clear.pool
                        /\ total_count' = clear.total
                        /\ loaded_count' = clear.loaded
                        /\ UNCHANGED submitted
                   ELSE /\ total_count' = Len(files)
                        /\ loaded_count' = 0
                        /\ count_label' = LoadingText(0, Len(files))
                        /\ card_data' = st.cards
                        /\ thread_pool' = st.pool
                        /\ submitted' = submitted + Len(files)

\* -------------------------------------------------- ThumbnailWorker.run
\* What run() emits for the file at path: finished(path, pix, info_text)
\* or error(path, str(e)[:30]).
RunResult(t) ==
    LET f == EntryOf(t.path)
    IN  IF f.kind = "valid"
        THEN [type |-> "finished", path |-> t.path, text |-> InfoText(f), gen |-> t.gen]
        ELSE [type |-> "error", path |-> t.path, text |-> Truncate(ErrText(f)), gen |-> t.gen]

\* run() with the slot called in the worker thread (a direct connection):
\* the worker itself updates the table and the counter.
ThumbnailWorkerRunDirect(t) ==
    LET e == RunResult(t)
    IN  /\ t \in thread_pool.running
        /\ thread_pool' = [thread_pool EXCEPT !.running = @ \ {t}, !.between = @ + 1]
        /\ card_data' = IF t.path \in DOMAIN card_data
                        THEN [card_data EXCEPT ![t.path].state =
                                 IF e.type = "finished" THEN "Loaded" ELSE "Failed"]
                        ELSE card_data
        /\ loaded_count' = loaded_count + 1
        /\ UNCHANGED <<cores, total_count, count_label, events, histVars>>

\* A pool thread finishes run() of t: the signal is emitted from the worker
\* thread to a slot of the browser, which lives in the GUI thread, so the
\* call is posted to the GUI thread's event queue.
ThumbnailWorkerRun(t) ==
    /\ t \in thread_pool.running
    /\ thread_pool' = [thread_pool EXCEPT !.running = @ \ {t}, !.between = @ + 1]
    /\ events' = Append(events, RunResult(t))
    /\ UNCHANGED <<cores, sessionVars, histVars>>

\* a thread that goes idle after run() although runnables are queued
ThreadGoesIdle ==
    /\ thread_pool.between > 0
    /\ thread_pool' = [thread_pool EXCEPT !.between = @ - 1]
    /\ UNCHANGED <<cores, sessionVars, events, histVars>>

\* The thread that left run() takes the oldest queued runnable, or goes
\* idle when there is none.
ThreadTakeNext ==
    /\ thread_pool.between > 0
    /\ thread_pool' =
         IF thread_pool.queue = << >>
         THEN [thread_pool EXCEPT !.between = @ - 1]
         ELSE [thread_pool EXCEPT !.between = @ - 1,
                                  !.queue = Tail(@),
                                  !.running = @ \cup {Head(thread_pool.queue)}]
    /\ UNCHANGED <<cores, sessionVars, events, histVars>>

\* ------------------------------------------------- the GUI thread's slots
\* The body of _on_thumbnail_loaded / _on_thumbnail_error under
\* "if path in self.card_data": the card shows the result, and
\* deleteLater() is called on its loading label.
ApplyResult(c, newstate, text) ==
    [c EXCEPT !.state = newstate, !.info = text,
              !.loading_label = "deleteLater", !.applied = @ + 1]

\* the updates made to every card of the table instead of card_data[path]
WithResultAll(cards, path, newstate, text) ==
    [p \in DOMAIN cards |-> ApplyResult(cards[p], newstate, text)]

\* card = self.card_data[path] and the updates of that card
WithResult(cards, path, newstate, text) ==
    [cards EXCEPT ![path] = ApplyResult(@, newstate, text)]

\* Whether the slot reaches its body for this path.  labelGone says whether
\* the event loop has already deleted the card's loading label: it can have
\* only after deleteLater() was called on it, and then stop_pulse() raises
\* RuntimeError (the wrapped C++ object is gone) before anything is
\* changed.  The deletion is processed after the events that were posted
\* before the deleteLater() call and before those posted after it, so for
\* a second result either case happens, depending on when the worker
\* emitted.
SlotApplies(path, labelGone) ==
    /\ path \in DOMAIN card_data
    /\ ~labelGone

Slot(e, newstate, labelGone) ==
    /\ events # << >>
    /\ e = Head(events)
    /\ events' = Tail(events)
    /\ UNCHANGED <<cores, thread_pool, total_count, histVars>>
    /\ IF SlotApplies(e.path, labelGone)
       THEN /\ card_data' = WithResult(card_data, e.path, newstate, e.text)
            /\ loaded_count' = loaded_count + 1
            /\ count_label' = UpdateProgress(loaded_count + 1, total_count)
       ELSE UNCHANGED <<card_data, loaded_count, count_label>>

\* The values labelGone can take when a result for path is delivered.
LabelGone(path) ==
    IF path \in DOMAIN card_data /\ card_data[path].loading_label = "deleteLater"
    THEN BOOLEAN ELSE {FALSE}

_on_thumbnail_loaded ==
    \E e \in SeqToSet(events) : \E gone \in LabelGone(e.path) :
        e.type = "finished" /\ Slot(e, "Loaded", gone)

_on_thumbnail_error ==
    \E e \in SeqToSet(events) : \E gone \in LabelGone(e.path) :
        e.type = "error" /\ Slot(e, "Failed", gone)

\* ============================================================ the host scene
\* A value / 5.0 result, kept exact as numerator over denominator.
Ratio(n, d) == [num |-> n, den |-> d]

\* A child of /obj with the parameters this program touches.  A new
\* environment light has an empty map, rotation 0 and intensity 1.
Node(type, name) ==
    [type |-> type, name |-> name, env_map |-> << >>, ry |-> 0,
     light_intensity |-> Ratio(1, 1)]

\* The scenes the program can start in: no /obj, /obj without an
\* environment light, /obj with one.
InitialScenes ==
    { [obj |-> FALSE, children |-> << >>],
      [obj |-> TRUE, children |-> << Node("geo", "geo1") >>],
      [obj |-> TRUE, children |-> << Node("geo", "geo1"), Node("envlight", "envlight1") >>] }

\* The slider positions that are tried, inside setRange(-360, 360) and
\* setRange(0, 100); setValue(0) and setValue(10) are the starting ones.
RotationValues == {-360, 0, 45}
IntensityValues == {10, 37, 100}

\* The host call that raises during one operation, if it is reached.
FailPoints == {"none", "node", "children", "createNode", "move", "parm", "set"}
SliderFailPoints == FailPoints \ {"createNode", "move"}

Buttons == {"left", "right"}

ENABLE_ENV_LIGHT_CLICK == TRUE

\* a lookup that never finds the light, so that one is created every time
FindEnvLightNever(children) == 0

\* next((n for n in obj.children() if n.type().name() == "envlight"), None):
\* the position of the first environment light, 0 for None.
FindEnvLight(children) ==
    IF \E i \in 1..Len(children) : children[i].type = "envlight"
    THEN CHOOSE i \in 1..Len(children) :
            /\ children[i].type = "envlight"
            /\ \A j \in 1..(i - 1) : children[j].type # "envlight"
    ELSE 0

HostResult(sc, log, exc) == [scene |-> sc, log |-> log, exc |-> exc]

\* a click that also hands the light the values the two sliders show
SetEnvMapAndSliders(node, path) ==
    [node EXCEPT !.env_map = path, !.ry = sliders.location,
                 !.light_intensity = Ratio(sliders.intensity, 5)]

\* parm.set(self.path) on the env_map parameter of the light.
SetEnvMap(node, path) ==
    [node EXCEPT !.env_map = path]

\* ClickableLabel._apply_env_light on scene sc, with the host call named
\* fail raising if it is reached: the scene afterwards, the host calls made,
\* and whether an exception left the method.
ApplyEnvLight(sc, path, fail) ==
    IF fail = "node" THEN HostResult(sc, <<"node">>, "raised")
    ELSE IF ~sc.obj THEN HostResult(sc, <<"node">>, "none")
    ELSE IF fail = "children" THEN HostResult(sc, <<"node", "children">>, "raised")
    ELSE
      LET i == FindEnvLight(sc.children)
          log2 == <<"node", "children">>
      IN  IF i = 0 /\ fail = "createNode"
          THEN HostResult(sc, log2 \o <<"createNode">>, "raised")
          ELSE
            LET ch == IF i = 0
                      THEN Append(sc.children, Node("envlight", "HDRI_Environment_Light"))
                      ELSE sc.children
                j == IF i = 0 THEN Len(ch) ELSE i
                sc1 == [sc EXCEPT !.children = ch]
                log3 == IF i = 0 THEN log2 \o <<"createNode", "move">> ELSE log2
            IN  IF i = 0 /\ fail = "move" THEN HostResult(sc1, log3, "raised")
                ELSE IF fail = "parm" THEN HostResult(sc1, log3 \o <<"parm">>, "raised")
                ELSE IF fail = "set" THEN HostResult(sc1, log3 \o <<"parm", "set">>, "raised")
                ELSE HostResult([sc EXCEPT !.children = [ch EXCEPT ![j] = SetEnvMap(@, path)]],
                                log3 \o <<"parm", "set">>, "none")

\* The write of one parameter of the found light.
SetParm(node, parm, value) ==
    IF parm = "ry" THEN [node EXCEPT !.ry = value]
    ELSE [node EXCEPT !.light_intensity = value]

\* The try block of on_intensity_changed / on_location_changed: look the
\* light up and, only if there is one, set its parameter.
SetLightParm(sc, parm, value, fail) ==
    IF fail = "node" THEN HostResult(sc, <<"node">>, "raised")
    ELSE IF ~sc.obj THEN HostResult(sc, <<"node">>, "none")
    ELSE IF fail = "children" THEN HostResult(sc, <<"node", "children">>, "raised")
    ELSE
      LET i == FindEnvLight(sc.children)
          log2 == <<"node", "children">>
      IN  IF i = 0 THEN HostResult(sc, log2, "none")
          ELSE IF fail = "parm" THEN HostResult(sc, log2 \o <<"parm">>, "raised")
          ELSE IF fail = "set" THEN HostResult(sc, log2 \o <<"parm", "set">>, "raised")
          ELSE HostResult([sc EXCEPT !.children[i] = SetParm(@, parm, value)],
                          log2 \o <<"parm", "set">>, "none")

\* value / 10.0, the divisor taken for the slider range 0..100
IntensityTenth(value) == Ratio(value, 10)

\* intensity_value = value / 5.0
Intensity(value) == Ratio(value, 5)

\* the guard without its ENABLE_HOUDINI test
ClickGuardNoHost(button) == ENABLE_ENV_LIGHT_CLICK /\ button = "left"

\* mousePressEvent: ENABLE_HOUDINI and ENABLE_ENV_LIGHT_CLICK and
\* event.button() == LeftButton
ClickGuard(button) == enable_houdini /\ ENABLE_ENV_LIGHT_CLICK /\ button = "left"

UiLast(op, arg, log, exc) == [op |-> op, arg |-> arg, log |-> log, exc |-> exc]

\* ClickableLabel.mousePressEvent on the thumbnail of path.  Nothing in it
\* catches an exception of a host call.
mousePressEvent(path, button, fail) ==
    /\ ui_ops < MaxUiOps
    /\ path \in DOMAIN card_data
    /\ ui_ops' = ui_ops + 1
    /\ IF ClickGuard(button)
       THEN LET r == ApplyEnvLight(scene, path, fail)
            IN  /\ scene' = r.scene
                /\ ui_last' = UiLast("click", path, r.log,
                                     IF r.exc = "raised" THEN "propagated" ELSE "none")
       ELSE /\ scene' = scene
            /\ ui_last' = UiLast("click", path, << >>, "none")
    /\ UNCHANGED <<pipeVars, crashed, enable_multithreading, enable_houdini,
                   sliders, decodeVars>>

\* The two slider slots.  valueChanged fires when the value changes; the
\* try/except around the host calls prints the exception.
SliderMoved(op, parm, old, value, hostValue, fail) ==
    /\ ui_ops < MaxUiOps
    /\ value # old
    /\ ui_ops' = ui_ops + 1
    /\ IF enable_houdini
       THEN LET r == SetLightParm(scene, parm, hostValue, fail)
            IN  /\ scene' = r.scene
                /\ ui_last' = UiLast(op, value, r.log,
                                     IF r.exc = "raised" THEN "logged" ELSE "none")
       ELSE /\ scene' = scene
            /\ ui_last' = UiLast(op, value, << >>, "none")
    /\ UNCHANGED <<pipeVars, crashed, enable_multithreading, enable_houdini, decodeVars>>

on_intensity_changed(value, fail) ==
    /\ SliderMoved("intensity", "light_intensity", sliders.intensity, value,
                   Intensity(value), fail)
    /\ sliders' = [sliders EXCEPT !.intensity = value]

on_location_changed(value, fail) ==
    /\ SliderMoved("rotation", "ry", sliders.location, value, value, fail)
    /\ sliders' = [sliders EXCEPT !.location = value]

\* The host side when no click or slider move has happened yet.
HostInit ==
    /\ enable_houdini \in BOOLEAN
    /\ scene \in (IF enable_houdini THEN InitialScenes
                  ELSE {[obj |-> FALSE, children |-> << >>]})
    /\ sliders = [location |-> 0, intensity |-> 10]
    /\ ui_ops = 0
    /\ ui_last = UiLast("none", 0, << >>, "none")

\* ------------------------------------------------- the synchronous path
\* Whether decoding the file reads past the end of its buffer: it does for
\* a valid file of two channels.
OverreadFile(f) == f.kind = "valid" /\ f.nchannels = 2

\* info_label.setText(str(e)) without the slice
SyncTextWhole(f) == IF f.kind = "valid" THEN InfoText(f) ELSE ErrText(f)

\* _load_thumbnail_sync: the text it puts in info_label, the f-string of
\* the spec or str(e)[:30]
SyncText(f) == IF f.kind = "valid" THEN InfoText(f) ELSE Truncate(ErrText(f))

\* The loop of load_exrs when _build_card calls _load_thumbnail_sync: each
\* card is stored and taken to its final state before the next is built.
RECURSIVE BuildCardsSync(_, _, _, _)
BuildCardsSync(files, folder, g, cards) ==
    IF files = << >> THEN cards
    ELSE LET f == Head(files)
             path == FullPath(folder, f)
             card == ApplyResult(NewCard(g),
                                 IF f.kind = "valid" THEN "Loaded" ELSE "Failed",
                                 SyncText(f))
         IN  BuildCardsSync(Tail(files), folder, g,
                            [p \in DOMAIN cards \cup {path} |->
                                IF p = path THEN card ELSE cards[p]])

\* load_exrs with ENABLE_MULTITHREADING off: there is no pool, and every
\* thumbnail is decoded inside the call.  dies says whether a read past
\* the end of a buffer ends the process.
load_exrs_sync(folder, dies) ==
    /\ opens < MaxOpens
    /\ opens' = opens + 1
    /\ asked' = folder
    /\ UNCHANGED <<cores, events, thread_pool, cleared, submitted>>
    /\ IF ~IsDir(folder)
       THEN /\ ~dies
            /\ count_label' = InvalidText
            /\ UNCHANGED <<card_data, loaded_count, total_count,
                           generation, current, grid, crashed>>
       ELSE LET files == Files(folder)
                g == generation + 1
            IN  /\ generation' = g
                /\ current' = folder
                /\ grid' = clear.grid \o PlaceCards(files, folder, 0, 0)
                /\ dies => \E i \in 1..Len(files) : OverreadFile(files[i])
                /\ crashed' = dies
                /\ IF files = << >>
                   THEN /\ count_label' = NoFilesText
                        /\ card_data' = NoCards
                        /\ total_count' = 0
                        /\ loaded_count' = 0
                   ELSE /\ total_count' = Len(files)
                        /\ loaded_count' = Len(files)
                        /\ count_label' = UpdateProgress(Len(files), Len(files))
                        /\ card_data' = BuildCardsSync(files, folder, g, NoCards)

\* A worker dies in the copy of a bitmap that is longer than its buffer,
\* and the process with it.
Crash(t) ==
    /\ t \in thread_pool.running
    /\ OverreadFile(EntryOf(t.path))
    /\ crashed' = TRUE
    /\ UNCHANGED <<pipeVars, enable_multithreading, hostVars, decodeVars>>

\* ============================================================== decoding
\* A sample of the float array read_image returns: a finite value num / Den,
\* NaN, +Inf or -Inf; "max" and "min" are the largest and the lowest finite
\* float, which nan_to_num puts in place of the infinities.
Den == 8
Fin(k) == [kind |-> "fin", num |-> k]
NaN == [kind |-> "nan", num |-> 0]
PosInf == [kind |-> "pinf", num |-> 0]
NegInf == [kind |-> "ninf", num |-> 0]
FltMax == [kind |-> "max", num |-> 0]
FltMin == [kind |-> "min", num |-> 0]

\* The samples images are made of: below 0, 0, inside (0, 1), 1, above 1,
\* and the three non-finite values.
Palette ==
    << Fin(0), Fin(1), NaN, Fin(4), PosInf, Fin(0 - 3), Fin(8), NegInf, Fin(12), Fin(7) >>

\* The array of an image of len samples: the palette walked from seed in
\* steps of stride.
ImageData(len, seed, stride) ==
    [i \in 1..len |-> Palette[((seed + (i - 1) * stride) % Len(Palette)) + 1]]

\* What ImageInput.open(path).spec() and read_image(format=FLOAT) return
\* for the valid files: height x width x nchannels samples, row by row.
Images ==
    { [width |-> w, height |-> h, nchannels |-> n,
       data |-> ImageData(w * h * n, seed, stride)] :
         w \in 1..MaxWidth, h \in 1..MaxHeight, n \in 1..MaxChannels,
         seed \in 0..(Len(Palette) - 1), stride \in {1, 3} }

NoImage == [width |-> 0, height |-> 0, nchannels |-> 0, data |-> << >>]
NoDecode == [status |-> "none"]

\* a nan_to_num that puts 0 in place of every non-finite sample
NanToNumZero(x) == IF x.kind = "fin" THEN x ELSE Fin(0)

\* np.nan_to_num(img): NaN becomes 0.0, +Inf the largest finite float,
\* -Inf the lowest finite float.
NanToNum(x) ==
    CASE x.kind = "nan" -> Fin(0)
      [] x.kind = "pinf" -> FltMax
      [] x.kind = "ninf" -> FltMin
      [] OTHER -> x

\* np.clip(img, 0.0, 1.0)
Clip(x) ==
    CASE x.kind = "max" -> Fin(Den)
      [] x.kind = "min" -> Fin(0)
      [] x.kind = "fin" -> Fin(Max(0, Min(Den, x.num)))
      [] OTHER -> x

\* (img * 255) rounded to the nearest integer
ToUint8Round(x) == (((2 * 255 * x.num) + Den) \div (2 * Den)) % 256

\* (img * 255).astype(np.uint8) of a finite sample: the fraction is cut and
\* the integer is kept modulo 2^8
ToUint8(x) == ((255 * x.num) \div Den) % 256

Quantize(x) == ToUint8(Clip(NanToNum(x)))

\* The uint8 array after the three array operations, sample by sample.
Img8(image) == [i \in 1..Len(image.data) |-> Quantize(image.data[i])]

\* img[:, :, -3:], the last three channels of each pixel
LastThree(bytes, n, npix) ==
    [k \in 1..(3 * npix) |-> bytes[n * ((k - 1) \div 3) + (n - 3) + ((k - 1) % 3) + 1]]

\* np.ascontiguousarray(img[:, :, :3]): channels 0, 1, 2 of each pixel
FirstThree(bytes, n, npix) ==
    [k \in 1..(3 * npix) |-> bytes[n * ((k - 1) \div 3) + ((k - 1) % 3) + 1]]

\* img.data as handed to QImage
Buffer(image) ==
    IF image.nchannels >= 3
    THEN FirstThree(Img8(image), image.nchannels, image.width * image.height)
    ELSE Img8(image)

\* The bytesPerLine and format arguments of the QImage made from the buffer.
Stride(image) == IF image.nchannels = 1 THEN image.width ELSE image.width * 3
Format(image) == IF image.nchannels = 1 THEN "Grayscale8" ELSE "RGB888"

\* QImage(...).copy() reads height * bytesPerLine bytes of the buffer.
Overread(image) == Len(Buffer(image)) < image.height * Stride(image)

\* One value for the bytes found behind the end of the buffer.
GarbageBytes == {0, 170, 255}

\* What run() has when it emits finished: the bitmap and info_text.
Finished(image, pixels) ==
    [status |-> "finished", format |-> Format(image), stride |-> Stride(image),
     buflen |-> Len(Buffer(image)), img8 |-> Img8(image), pixels |-> pixels,
     info |-> InfoText(image)]

\* The decode of run() / _load_thumbnail_sync on an image whose buffer is as
\* long as the bitmap read from it.
DecodeRun ==
    /\ decoded = NoDecode
    /\ img # NoImage
    /\ ~Overread(img)
    /\ decoded' = Finished(img, SubSeq(Buffer(img), 1, img.height * Stride(img)))
    /\ UNCHANGED <<img, crashed>>

\* The same on an image whose buffer is shorter (nchannels == 2): the copy
\* reads past the end of the array, so it gets whatever bytes lie there, or
\* the process dies.
DecodeOverread ==
    /\ decoded = NoDecode
    /\ img # NoImage
    /\ Overread(img)
    /\ \/ \E g \in GarbageBytes :
            /\ decoded' = Finished(img, Buffer(img) \o
                    [i \in 1..(img.height * Stride(img) - Len(Buffer(img))) |-> g])
            /\ UNCHANGED crashed
       \/ /\ decoded' = [status |-> "crashed", stride |-> Stride(img),
                          buflen |-> Len(Buffer(img))]
          /\ crashed' = TRUE
    /\ UNCHANGED img

\* ------------------------------------------------------ the specifications
\* A step of the loading pipeline, which touches neither the host nor the
\* flags, in a process that is still alive.
Pipe(A) ==
    /\ ~crashed
    /\ A
    /\ UNCHANGED <<crashed, enable_multithreading, hostVars, decodeVars>>

\* The program as shipped: ENABLE_MULTITHREADING = True, no click or slider
\* move.
Init ==
    /\ PipeInit
    /\ crashed = FALSE
    /\ enable_multithreading = TRUE
    /\ HostInit
    /\ enable_houdini = TRUE
    /\ scene = [obj |-> TRUE, children |-> << Node("geo", "geo1") >>]
    /\ img = NoImage
    /\ decoded = NoDecode

Next ==
    \/ \E folder \in Folders : Pipe(load_exrs(folder))
    \/ \E t \in thread_pool.running : Pipe(ThumbnailWorkerRun(t))
    \/ Pipe(ThreadTakeNext)
    \/ Pipe(_on_thumbnail_loaded)
    \/ Pipe(_on_thumbnail_error)
    \/ \E t \in thread_pool.running : ~crashed /\ Crash(t)

Spec == Init /\ [][Next]_vars

\* The same under the scheduling Qt gives: a started run() that does not
\* die returns, a pool thread that left run() goes on to the next queued
\* runnable, and the GUI thread's event loop delivers every posted call.
\* Nothing makes the user call load_exrs.
Fairness ==
    /\ WF_vars(\E t \in thread_pool.running : Pipe(ThumbnailWorkerRun(t)))
    /\ WF_vars(Pipe(ThreadTakeNext))
    /\ WF_vars(Pipe(_on_thumbnail_loaded) \/ Pipe(_on_thumbnail_error))

FairSpec == Init /\ [][Next]_vars /\ Fairness

\* The browser with its buttons and sliders, for either value of the two
\* flags, on one machine, with one load_exrs call left: the calls before
\* it were given a path that is not a directory.
UiInit ==
    /\ cores = MaxCores
    /\ card_data = NoCards
    /\ loaded_count = 0
    /\ total_count = 0
    /\ count_label = InvalidText
    /\ thread_pool = [queue |-> << >>, running |-> {}, between |-> 0]
    /\ events = << >>
    /\ opens = MaxOpens - 1
    /\ generation = 0
    /\ submitted = 0
    /\ cleared = {}
    /\ asked = "file.exr"
    /\ current = ""
    /\ grid = << >>
    /\ crashed = FALSE
    /\ enable_multithreading \in BOOLEAN
    /\ HostInit
    /\ img = NoImage
    /\ decoded = NoDecode

UiNext ==
    \/ \E folder \in Folders :
          enable_multithreading /\ Pipe(load_exrs(folder))
    \/ \E folder \in Folders : \E dies \in BOOLEAN :
          /\ ~enable_multithreading /\ ~crashed
          /\ load_exrs_sync(folder, dies)
          /\ UNCHANGED <<enable_multithreading, hostVars, decodeVars>>
    \/ \E t \in thread_pool.running : Pipe(ThumbnailWorkerRun(t))
    \/ Pipe(ThreadTakeNext)
    \/ Pipe(_on_thumbnail_loaded)
    \/ Pipe(_on_thumbnail_error)
    \/ \E t \in thread_pool.running : ~crashed /\ Crash(t)
    \/ \E path \in DOMAIN card_data : \E button \in Buttons : \E fail \in FailPoints :
          ~crashed /\ mousePressEvent(path, button, fail)
    \/ \E value \in IntensityValues : \E fail \in SliderFailPoints :
          ~crashed /\ on_intensity_changed(value, fail)
    \/ \E value \in RotationValues : \E fail \in SliderFailPoints :
          ~crashed /\ on_location_changed(value, fail)

UiSpec == UiInit /\ [][UiNext]_vars

\* The browser opening the large folder, a small one or a regular file,
\* with the pool or without it, on one machine, with one load_exrs call
\* left as in UiInit.
GridFolders == {"dirBig", "dirB", "file.exr"}

GridInit ==
    /\ UiInit
    /\ enable_houdini = TRUE
    /\ scene = [obj |-> TRUE, children |-> << Node("geo", "geo1") >>]

GridNext ==
    \/ \E folder \in GridFolders :
          enable_multithreading /\ Pipe(load_exrs(folder))
    \/ \E folder \in GridFolders :
          /\ ~enable_multithreading /\ ~crashed
          /\ load_exrs_sync(folder, FALSE)
          /\ UNCHANGED <<enable_multithreading, hostVars, decodeVars>>
    \/ \E t \in thread_pool.running : Pipe(ThumbnailWorkerRun(t))
    \/ Pipe(ThreadTakeNext)
    \/ Pipe(_on_thumbnail_loaded)
    \/ Pipe(_on_thumbnail_error)

GridSpec == GridInit /\ [][GridNext]_vars

\* The decode alone, over the images of Images.
DecodeInit ==
    /\ PipeInit
    /\ cores = MaxCores
    /\ crashed = FALSE
    /\ enable_multithreading = TRUE
    /\ HostInit
    /\ enable_houdini = TRUE
    /\ scene = [obj |-> TRUE, children |-> << Node("geo", "geo1") >>]
    /\ img \in Images
    /\ decoded = NoDecode

DecodeNext ==
    \/ DecodeRun /\ UNCHANGED <<pipeVars, enable_multithreading, hostVars>>
    \/ DecodeOverread /\ UNCHANGED <<pipeVars, enable_multithreading, hostVars>>

DecodeSpec == DecodeInit /\ [][DecodeNext]_vars

\* ================================================================== claims
Idle == /\ thread_pool.queue = << >>
        /\ thread_pool.running = {}
        /\ events = << >>

\* A step of one of the two result slots: the GUI thread takes the oldest
\* posted event.
SlotStep == events # << >> /\ events' = Tail(events)

\* A slot step that reached the slot's body and applied the result.
AppliedStep == SlotStep /\ card_data' # card_data

AllTerminal(cards) == \A p \in DOMAIN cards : cards[p].state \in Terminal

\* C1: a result of a task submitted before the most recent load_exrs that
\* passed the directory check never changes card_data and never increments
\* loaded_count.
C1_StaleResultIgnored ==
    [][(SlotStep /\ Head(events).gen < generation)
          => (card_data' = card_data /\ loaded_count' = loaded_count)]_vars

\* C2: after load_exrs on a directory with N >= 1 matching files, whenever
\* no task is queued, running or awaiting delivery, loaded_count =
\* total_count = N and every card is Loaded or Failed.
C2_CompleteWhenIdle ==
    (current # "" /\ Len(Files(current)) >= 1 /\ Idle)
        => /\ loaded_count = Len(Files(current))
           /\ total_count = Len(Files(current))
           /\ AllTerminal(card_data)

\* C3: a card that is Loaded or Failed does not change again for as long as
\* it stays in the table: no second result is applied to it.
C3_TerminalIsFinal ==
    [][\A p \in DOMAIN card_data :
          (/\ card_data[p].state \in Terminal
           /\ p \in DOMAIN card_data'
           /\ card_data'[p].card = card_data[p].card)
             => card_data'[p] = card_data[p]]_vars

\* C4: load_exrs with a path that is not a directory sets the status to
\* "Invalid folder path" and starts no worker, whatever the state before.
C4_InvalidFolder ==
    [][(opens' = opens + 1 /\ asked' \notin Dirs)
          => /\ count_label' = InvalidText
             /\ submitted' = submitted
             /\ thread_pool' = thread_pool]_vars

C4_Witness ==
    /\ asked = "file.exr"
    /\ count_label = InvalidText
    /\ card_data # NoCards
    /\ thread_pool.running # {}

\* C5: load_exrs on a directory with no matching file sets the status to
\* "No HDRI files found", starts no worker, and leaves the table empty and
\* both counters 0.
C5_EmptyFolder ==
    [][(/\ opens' = opens + 1
        /\ asked' \in Dirs
        /\ \A i \in 1..Len(ListDir(asked')) :
              Lower(ListDir(asked')[i].ext) \notin {".exr", ".hdr"})
          => /\ count_label' = NoFilesText
             /\ submitted' = submitted
             /\ thread_pool'.queue = << >>
             /\ thread_pool'.running = thread_pool.running
             /\ card_data' = NoCards
             /\ total_count' = 0
             /\ loaded_count' = 0]_vars

C5_Witness ==
    /\ asked = "dirEmpty"
    /\ count_label = NoFilesText
    /\ generation = 2
    /\ cleared # {}
    /\ card_data = NoCards

\* C6: when _on_thumbnail_error applies a failure for path p, card p
\* becomes Failed with the message, loaded_count grows by 1, the status is
\* rewritten from the counters, every other card is unchanged, and the pool
\* (the siblings' runnables) is left as it was.
C6_ErrorFrame ==
    [][(AppliedStep /\ Head(events).type = "error")
          => LET p == Head(events).path
             IN  /\ DOMAIN card_data' = DOMAIN card_data
                 /\ card_data'[p].state = "Failed"
                 /\ card_data'[p].info = Head(events).text
                 /\ \A q \in DOMAIN card_data \ {p} : card_data'[q] = card_data[q]
                 /\ loaded_count' = loaded_count + 1
                 /\ total_count' = total_count
                 /\ count_label' = UpdateProgress(loaded_count', total_count')
                 /\ thread_pool' = thread_pool]_vars

C6_Witness ==
    /\ current = "dirA"
    /\ \E p, q \in DOMAIN card_data :
          /\ card_data[p].state = "Failed"
          /\ card_data[q].state = "Loading"
    /\ loaded_count = 1
    /\ count_label = LoadingText(1, total_count)

\* C7: a worker thread's step (a runnable leaves run(), or a thread takes
\* the next runnable) changes neither the table, the counters nor the
\* status; a finishing runnable posts exactly one result, for its own path.
C7_WorkersOnlyPost ==
    [][/\ \A t \in thread_pool.running :
            t \notin thread_pool'.running
               => /\ sessionVars' = sessionVars
                  /\ Len(events') = Len(events) + 1
                  /\ SubSeq(events', 1, Len(events)) = events
                  /\ events'[Len(events')].path = t.path
                  /\ events'[Len(events')].type \in {"finished", "error"}
       /\ thread_pool'.between < thread_pool.between
            => (sessionVars' = sessionVars /\ events' = events)]_vars

C7_Witness ==
    /\ Len(events) = 2
    /\ card_data # NoCards
    /\ \A p \in DOMAIN card_data : card_data[p].state = "Loading"
    /\ loaded_count = 0
    /\ generation = 1

\* C8: the runnables inside run() never outnumber MAX_THREAD_COUNT, which
\* is cores div 2 when that is at least 1 and 1 otherwise.
C8_BoundedWorkers ==
    /\ Cardinality(thread_pool.running) <= MAX_THREAD_COUNT
    /\ MAX_THREAD_COUNT >= 1
    /\ MAX_THREAD_COUNT = (IF cores \div 2 >= 1 THEN cores \div 2 ELSE 1)

C8_Witness ==
    /\ MAX_THREAD_COUNT = 2
    /\ Cardinality(thread_pool.running) = 2
    /\ thread_pool.queue # << >>

\* C9: a runnable that was still queued when clear() ran is not queued, not
\* running, and has no result posted, in any later state.
C9_ClearedNeverRuns ==
    \A t \in cleared :
        /\ t \notin thread_pool.running
        /\ t \notin SeqToSet(thread_pool.queue)
        /\ \A i \in 1..Len(events) :
              ~(events[i].path = t.path /\ events[i].gen = t.gen)

C9_Witness ==
    /\ cleared # {}
    /\ Idle
    /\ thread_pool.between = 0
    /\ loaded_count > 0

\* C10: after each applied result the status reads "Loading X/N" with
\* X = loaded_count and N = total_count when loaded_count < total_count, and
\* it reads the completion summary only when loaded_count = total_count and
\* every card is Loaded or Failed.
C10_ProgressText ==
    [][AppliedStep
          => /\ loaded_count' < total_count'
                  => count_label' = LoadingText(loaded_count', total_count')
             /\ count_label' = LoadedText(total_count')
                  => (loaded_count' = total_count' /\ AllTerminal(card_data'))]_vars

\* ---------------------------------------------------------------- the host
\* A click or a slider move is the step that counts one.
UiStep == ui_ops' = ui_ops + 1

\* The environment light the lookup of the three operations finds in sc:
\* its position under /obj, 0 when there is none.
LightAt(sc) == IF sc.obj THEN FindEnvLight(sc.children) ELSE 0

InLog(call, log) == \E k \in 1..Len(log) : log[k] = call

LightCount(sc) ==
    Cardinality({i \in 1..Len(sc.children) : sc.children[i].type = "envlight"})

\* C12: /obj never holds more than one environment light; a click whose
\* host calls all succeed creates a light exactly when the lookup found
\* none, appending it to the children, and otherwise adds no node; in both
\* cases the light's env_map becomes the clicked path and nothing else in
\* the scene changes; a slider move adds no node.
C12_OneLight ==
    /\ [](LightCount(scene) <= 1)
    /\ [][ (UiStep /\ ui_last'.op = "click" /\ ui_last'.log # << >>
                   /\ ui_last'.exc = "none" /\ scene.obj) =>
             LET i == LightAt(scene)
             IN  /\ i # 0 =>
                      /\ ~InLog("createNode", ui_last'.log)
                      /\ scene' = [scene EXCEPT !.children[i].env_map = ui_last'.arg]
                 /\ i = 0 =>
                      /\ InLog("createNode", ui_last'.log)
                      /\ scene'.children =
                           Append(scene.children,
                                  [Node("envlight", "HDRI_Environment_Light")
                                     EXCEPT !.env_map = ui_last'.arg])
       ]_vars
    /\ [][ (UiStep /\ ui_last'.op # "click") =>
             Len(scene'.children) = Len(scene.children) ]_vars

\* Two clicks: the second one found the light the first one made and set
\* its map.
C12_Witness ==
    /\ ui_ops = 2
    /\ ui_last.op = "click"
    /\ InLog("set", ui_last.log)
    /\ ~InLog("createNode", ui_last.log)
    /\ LightCount(scene) = 1
    /\ scene.children[LightAt(scene)].name = "HDRI_Environment_Light"
    /\ scene.children[LightAt(scene)].env_map = ui_last.arg

\* C13: no click and no slider move lets an exception of a host call out
\* of its handler, and none changes the cards, the counters or the status.
C13_HostErrorContained ==
    [][ UiStep => (ui_last'.exc # "propagated" /\ UNCHANGED sessionVars) ]_vars

\* C14: with ENABLE_HOUDINI off, a click or a slider move makes no host
\* call, lets no exception out and leaves the scene, the cards, the
\* counters and the status as they are; and every other step (load_exrs,
\* a worker, a slot), with the flag on or off, leaves the host, the flag
\* and the sliders alone.
C14_Standalone ==
    /\ [][ (UiStep /\ ~enable_houdini) =>
             /\ ui_last'.log = << >>
             /\ ui_last'.exc = "none"
             /\ scene' = scene
             /\ UNCHANGED sessionVars ]_vars
    /\ [][ ~UiStep => UNCHANGED hostVars ]_vars

\* Without the host: a folder was loaded, its thumbnail was clicked after a
\* slider was moved, and no host call was made.
C14_Witness ==
    /\ ~enable_houdini
    /\ ui_ops = 2
    /\ ui_last.op = "click"
    /\ ui_last.log = << >>
    /\ sliders # [location |-> 0, intensity |-> 10]
    /\ \E p \in DOMAIN card_data : card_data[p].state = "Loaded"

\* ------------------------------------------------------------ thumbnails
\* C15: in every state, with the pool or without it, a Failed card shows
\* the first min(30, n) characters of the n characters of the exception's
\* text, so at most 30.
C15_ErrorTextCut ==
    \A p \in DOMAIN card_data :
        card_data[p].state = "Failed" =>
            LET text == ErrText(EntryOf(p))
                n == IF Len(text) < 30 THEN Len(text) ELSE 30
            IN  /\ card_data[p].info = [i \in 1..n |-> text[i]]
                /\ Len(card_data[p].info) <= 30

\* Without the pool, a file whose exception text is longer than 30
\* characters has failed inside load_exrs.
C15_Witness ==
    /\ ~enable_multithreading
    /\ \E p \in DOMAIN card_data :
          /\ card_data[p].state = "Failed"
          /\ Len(ErrText(EntryOf(p))) > 30
          /\ Len(card_data[p].info) = 30

\* --------------------------------------------------------------- decoding
\* C16: a finished decode of an image of n channels made, for n = 1, a
\* Grayscale8 bitmap of width bytes per line holding one byte per sample
\* in order, and for n >= 3 an RGB888 bitmap holding for each pixel the
\* bytes of its channels 0, 1, 2 in this order and nothing of the higher
\* channels; info_text names n, the channel count of the file.
C16_ChannelPolicy ==
    decoded.status = "finished" =>
        LET n == img.nchannels
            npix == img.width * img.height
        IN  /\ n = 1 =>
                 /\ decoded.format = "Grayscale8"
                 /\ decoded.stride = img.width
                 /\ Len(decoded.pixels) = npix
                 /\ \A q \in 1..npix : decoded.pixels[q] = Quantize(img.data[q])
            /\ n >= 3 =>
                 /\ decoded.format = "RGB888"
                 /\ decoded.stride = 3 * img.width
                 /\ Len(decoded.pixels) = 3 * npix
                 /\ \A q \in 0..(npix - 1) : \A c \in 0..2 :
                       decoded.pixels[3 * q + c + 1] = Quantize(img.data[n * q + c + 1])
            /\ decoded.info = ToStr(img.width) \o <<"x">> \o ToStr(img.height)
                                 \o <<" . ">> \o ToStr(n) \o <<"ch">>

\* A four-channel image of several pixels, whose fourth channel differs
\* from its first in some pixel, has been decoded.
C16_Witness ==
    /\ decoded.status = "finished"
    /\ img.nchannels = 4
    /\ img.width * img.height > 1
    /\ Len(decoded.pixels) = 3 * img.width * img.height
    /\ \E q \in 0..(img.width * img.height - 1) :
          Quantize(img.data[4 * q + 4]) # Quantize(img.data[4 * q + 1])

\* clamp(x, 0, 1) of the finite sample k / Den, as a numerator over Den
Clamped(k) == IF k < 0 THEN 0 ELSE IF k > Den THEN Den ELSE k

\* C17: whatever the samples are, a decode does not end in an error: it
\* finishes, or (only for two channels, where the bitmap is longer than
\* the array) the process dies; and in a finished decode every byte of the
\* bitmap is in 0..255, and the byte b made of a finite sample x is the
\* integer with b <= 255 * clamp(x, 0, 1) < b + 1.
C17_BytesBounded ==
    /\ decoded.status \in {"none", "finished", "crashed"}
    /\ decoded.status = "crashed" => img.nchannels = 2
    /\ decoded.status = "finished" =>
         /\ \A k \in 1..Len(decoded.pixels) : decoded.pixels[k] \in 0..255
         /\ Len(decoded.img8) = Len(img.data)
         /\ \A i \in 1..Len(img.data) :
               /\ decoded.img8[i] \in 0..255
               /\ img.data[i].kind = "fin" =>
                    /\ decoded.img8[i] * Den <= 255 * Clamped(img.data[i].num)
                    /\ 255 * Clamped(img.data[i].num) < (decoded.img8[i] + 1) * Den

\* An image with a NaN, a negative sample, a sample above 1 and the sample
\* 1/2 has been decoded; 1/2 became 127 and 3/2 became 255.
C17_Witness ==
    /\ decoded.status = "finished"
    /\ \E i \in 1..Len(img.data) : img.data[i] = NaN
    /\ \E i \in 1..Len(img.data) : img.data[i] = Fin(0 - 3) /\ decoded.img8[i] = 0
    /\ \E i \in 1..Len(img.data) : img.data[i] = Fin(12) /\ decoded.img8[i] = 255
    /\ \E i \in 1..Len(img.data) : img.data[i] = Fin(4) /\ decoded.img8[i] = 127

\* The place in the bitmap of the byte made of sample i of the array, 0
\* when the sample's channel is not kept.
PixelOf(image, i) ==
    IF image.nchannels < 3 THEN i
    ELSE IF (i - 1) % image.nchannels < 3
         THEN 3 * ((i - 1) \div image.nchannels) + ((i - 1) % image.nchannels) + 1
         ELSE 0

NonFinite == {"nan", "pinf", "ninf"}

\* The byte of the bitmap that sample i of a finished decode has become is
\* b, if the sample's channel is kept.
SampleByte(i, b) ==
    /\ decoded.img8[i] = b
    /\ PixelOf(img, i) # 0 => decoded.pixels[PixelOf(img, i)] = b

\* C20, as claimed: in a finished decode every NaN, +Inf and -Inf sample
\* has become the byte 0.
C20_NonFiniteIsZero ==
    decoded.status = "finished" =>
        \A i \in 1..Len(img.data) :
            img.data[i].kind \in NonFinite => SampleByte(i, 0)

\* C20, amended: in a finished decode every NaN and every -Inf sample has
\* become the byte 0, and every +Inf sample the byte 255.
C20_NonFiniteBytes ==
    decoded.status = "finished" =>
        \A i \in 1..Len(img.data) :
            /\ img.data[i].kind \in {"nan", "ninf"} => SampleByte(i, 0)
            /\ img.data[i].kind = "pinf" => SampleByte(i, 255)

\* An image with a NaN, a +Inf and a -Inf sample in kept channels has been
\* decoded.
C20_Witness ==
    /\ decoded.status = "finished"
    /\ \A kind \in NonFinite :
          \E i \in 1..Len(img.data) : img.data[i].kind = kind /\ PixelOf(img, i) # 0

\* ------------------------------------------------------------ load_exrs
\* The full paths of the entries of folder that end in .exr or .hdr in
\* any case.
ListedPaths(folder) ==
    { <<folder, ListDir(folder)[i].name, ListDir(folder)[i].ext>> :
        i \in { j \in 1..Len(ListDir(folder)) :
                  ListDir(folder)[j].ext \in {".exr", ".hdr", ".EXR", ".HDR", ".Hdr"} } }

\* The number of tasks for path that load_exrs call g started, waiting or
\* running.
TasksFor(pool, path, g) ==
    Cardinality({k \in 1..Len(pool.queue) : pool.queue[k] = Task(path, g)})
      + Cardinality({t \in pool.running : t = Task(path, g)})

\* C19: right after a load_exrs call on a directory with N >= 1 listed
\* files, card_data holds exactly the N listed paths, every card was built
\* by this call and is Loading with no result applied, loaded_count is 0,
\* total_count is N, N tasks were submitted, and the pool holds exactly one
\* task of this call for each path.
C19_AfterOpen ==
    [][ (opens' = opens + 1 /\ IsDir(asked') /\ ListedPaths(asked') # {}) =>
          LET paths == ListedPaths(asked')
              N == Cardinality(paths)
          IN  /\ DOMAIN card_data' = paths
              /\ \A p \in paths :
                    /\ card_data'[p].state = "Loading"
                    /\ card_data'[p].card = generation'
                    /\ card_data'[p].applied = 0
                    /\ TasksFor(thread_pool', p, generation') = 1
              /\ loaded_count' = 0
              /\ total_count' = N
              /\ count_label' = LoadingText(0, N)
              /\ submitted' = submitted + N
      ]_vars

\* dirA has just been opened after dirB: its two cards are Loading, one
\* task runs and the other waits behind it, and nothing of dirB is left in
\* the table.
C19_Witness ==
    /\ opens = 2
    /\ current = "dirA"
    /\ submitted = 1 + Cardinality(ListedPaths("dirA"))
    /\ DOMAIN card_data = ListedPaths("dirA")
    /\ \A p \in DOMAIN card_data : card_data[p].state = "Loading"
    /\ loaded_count = 0
    /\ thread_pool.queue # << >>
    /\ \A p \in DOMAIN card_data : TasksFor(thread_pool, p, generation) = 1

\* The last two elements of a text.
EndsWith(text, c1, c2) ==
    /\ Len(text) >= 2
    /\ text[Len(text) - 1] = c1
    /\ text[Len(text)] = c2

\* C18: when dirA, holding the valid two-channel a.exr and the corrupt
\* b.hdr (and a text file), is the folder of the latest load_exrs call and
\* no task and no result is left, the card of a.exr is Loaded with an info text ending in "2ch",
\* the card of b.hdr is Failed with a text of at most 30 characters, and
\* the status reads "Loaded 2 HDRI files"; in every order of the two tasks.
C18_TwoFiles ==
    (Idle /\ ~crashed /\ current = "dirA" /\ asked = "dirA"
          /\ ListedPaths("dirA") = { <<"dirA", "a", ".exr">>, <<"dirA", "b", ".hdr">> }) =>
        /\ DOMAIN card_data = ListedPaths("dirA")
        /\ card_data[<<"dirA", "a", ".exr">>].state = "Loaded"
        /\ EndsWith(card_data[<<"dirA", "a", ".exr">>].info, "2", "ch")
        /\ card_data[<<"dirA", "b", ".hdr">>].state = "Failed"
        /\ Len(card_data[<<"dirA", "b", ".hdr">>].info) <= 30
        /\ count_label = <<"Loaded ", "2", " HDRI file", "s">>

\* Both tasks of dirA ran on two threads at once and both results were
\* delivered.
C18_Witness ==
    /\ Idle
    /\ ~crashed
    /\ current = "dirA"
    /\ cores = 4
    /\ opens = 1
    /\ loaded_count = 2
    /\ total_count = 2
    /\ card_data[<<"dirA", "a", ".exr">>].state = "Loaded"
    /\ card_data[<<"dirA", "b", ".hdr">>].state = "Failed"

\* ------------------------------------------------------------- completion
\* Every card shows a result and the status is the completion summary.
Complete ==
    /\ AllTerminal(card_data)
    /\ count_label = LoadedText(total_count)

\* The latest load_exrs call was made on a directory with at least one
\* listed file.
LastOpenListed == IsDir(asked) /\ ListedPaths(asked) # {}

\* C21: under FairSpec, once load_exrs is called no more, the run reaches
\* and stays in states where, if the latest call was made on a directory
\* with at least one listed file, every card is Loaded or Failed and the
\* status is the completion summary, unless a decode has killed the
\* process instead of returning.
C21_EventuallyComplete ==
    <>[](LastOpenListed => (crashed \/ Complete))

\* One thread has worked through the two files of dirA, the second taken
\* from the queue, and both results were delivered.
C21_Witness ==
    /\ Complete
    /\ Idle
    /\ thread_pool.between = 0
    /\ cores = 1
    /\ current = "dirA"
    /\ asked = "dirA"
    /\ total_count = 2
    /\ loaded_count = 2

\* ----------------------------------------------------------- the status
\* C22: while count_label reads "Invalid folder path" or "No HDRI files
\* found", only a load_exrs call changes it: no delivered result does.
C22_FolderErrorStays ==
    [][ (count_label \in {InvalidText, NoFilesText} /\ opens' = opens)
            => count_label' = count_label ]_vars

\* ---------------------------------------------------------------- the grid
\* C23: the grid holds the listed files of the open folder in listing
\* order, the i-th of them (i from 0) at row i div 4 and column i mod 4; so
\* no two cards share a cell and every row above the last holds 4 cards.
C23_GridPlacement ==
    /\ current # "" => Len(grid) = Len(Files(current))
    /\ \A i \in 1..Len(grid) :
          /\ grid[i].path = FullPath(current, Files(current)[i])
          /\ grid[i].row = (i - 1) \div 4
          /\ grid[i].col = (i - 1) % 4
    /\ \A i, j \in 1..Len(grid) :
          (grid[i].row = grid[j].row /\ grid[i].col = grid[j].col) => i = j
    /\ \A i \in 1..Len(grid) :
          grid[i].row < grid[Len(grid)].row =>
              Cardinality({j \in 1..Len(grid) : grid[j].row = grid[i].row}) = 4

\* The large folder has been opened through the pool and its thumbnails
\* are all in: its ninth card stands alone at the start of the third row.
C23_Witness ==
    /\ enable_multithreading
    /\ Idle
    /\ AllTerminal(card_data)
    /\ current = "dirBig"
    /\ Len(grid) > 8
    /\ grid[9].row = 2
    /\ grid[9].col = 0
    /\ grid[8].row = 1
    /\ grid[8].col = 3

\* ------------------------------------------------------------ the counters
\* C24: in every state 0 <= loaded_count <= total_count, total_count is the
\* number of cards in card_data, and loaded_count is the number of cards
\* that are Loaded or Failed.
C24_CountsMatch ==
    /\ 0 <= loaded_count
    /\ loaded_count <= total_count
    /\ total_count = Cardinality(DOMAIN card_data)
    /\ loaded_count = Cardinality({p \in DOMAIN card_data : card_data[p].state \in Terminal})

\* C25: a load_exrs call with a path that is not a directory leaves
\* card_data, both counters, the grid, the pool's queue and running set
\* and the posted results exactly as they were, and sets the status to
\* "Invalid folder path".
C25_InvalidFrame ==
    [][ (opens' = opens + 1 /\ asked' \notin Dirs) =>
          /\ card_data' = card_data
          /\ loaded_count' = loaded_count
          /\ total_count' = total_count
          /\ grid' = grid
          /\ thread_pool' = thread_pool
          /\ events' = events
          /\ count_label' = <<"Invalid folder path">>
      ]_vars

\* A regular file was given while one task of the open folder was running
\* and another waiting: cards, counters and tasks are still there.
C25_Witness ==
    /\ asked = "file.exr"
    /\ count_label = <<"Invalid folder path">>
    /\ DOMAIN card_data # {}
    /\ total_count = Cardinality(DOMAIN card_data)
    /\ Len(grid) = total_count
    /\ thread_pool.running # {}
    /\ thread_pool.queue # << >>

\* ------------------------------------------------- with and without the pool
\* What load_exrs leaves for the folder when every thumbnail is decoded
\* inside the call: the cards of the synchronous path.
SyncCards(folder) == BuildCardsSync(Files(folder), folder, 0, NoCards)

\* C26: when no task and no result is left after load_exrs calls through
\* the pool, the cards, their states and texts, the two counters and the
\* status are those the same calls leave without the pool: the cards of
\* the synchronous path for the open folder, both counters at the number
\* of its files, and after a call on a folder with files the completion
\* summary.
C26_SameAsSync ==
    (Idle /\ ~crashed /\ current # "") =>
        LET n == Len(Files(current))
        IN  /\ DOMAIN card_data = DOMAIN SyncCards(current)
            /\ \A p \in DOMAIN card_data :
                  /\ card_data[p].state = SyncCards(current)[p].state
                  /\ card_data[p].info = SyncCards(current)[p].info
            /\ loaded_count = n
            /\ total_count = n
            /\ (asked = current /\ n > 0) => count_label = LoadedText(n)

\* ------------------------------------------------------------- the buffer
\* C27: in every decode the array handed to QImage holds at least
\* bytesPerLine * height bytes: width * height bytes with width bytes per
\* line for one channel, 3 * width * height bytes with 3 * width bytes per
\* line for any other channel count.
C27_BufferCoversBitmap ==
    decoded.status # "none" =>
        /\ decoded.buflen >= decoded.stride * img.height
        /\ img.nchannels = 1 =>
              /\ decoded.stride = img.width
              /\ decoded.buflen = img.width * img.height
        /\ img.nchannels # 1 =>
              /\ decoded.stride = 3 * img.width
              /\ decoded.buflen = 3 * img.width * img.height

\* ------------------------------------------------- the click and the sliders
\* C28: a click, however it ends, changes no ry and no light_intensity:
\* every node that was there keeps both, and a light the click creates has
\* rotation 0 and intensity 1, the values of a new node, whatever the
\* sliders show.
C28_ClickWritesMapOnly ==
    [][ (UiStep /\ ui_last'.op = "click") =>
          /\ Len(scene'.children) >= Len(scene.children)
          /\ \A i \in 1..Len(scene.children) :
                /\ scene'.children[i].ry = scene.children[i].ry
                /\ scene'.children[i].light_intensity = scene.children[i].light_intensity
                /\ scene'.children[i].type = scene.children[i].type
          /\ \A i \in (Len(scene.children) + 1)..Len(scene'.children) :
                /\ scene'.children[i].type = "envlight"
                /\ scene'.children[i].ry = 0
                /\ scene'.children[i].light_intensity = [num |-> 1, den |-> 1]
          /\ sliders' = sliders
      ]_vars

\* The intensity slider was moved to 37 while there was no light; then a
\* click created the light, which has the clicked map and intensity 1.
C28_Witness ==
    /\ ui_ops = 2
    /\ ui_last.op = "click"
    /\ ui_last.exc = "none"
    /\ InLog("createNode", ui_last.log)
    /\ sliders.intensity = 37
    /\ scene.children[LightAt(scene)].env_map = ui_last.arg
    /\ scene.children[LightAt(scene)].light_intensity = [num |-> 1, den |-> 1]
    /\ scene.children[LightAt(scene)].ry = 0

====
